---------------------------- MODULE Spec2Model ----------------------------
(***************************************************************************)
(* A model of the P2P file transfer core:                                  *)
(*   - pkg/protocol  : the gob wire codec (encoder.go, decoder.go)         *)
(*   - pkg/transport : TCPTransport (listener, registry, readers, Send)    *)
(*   - peer          : Peer (dispatch loop, RequestFile, handlers)         *)
(* Every goroutine of the code is a process of the model: the accept loop, *)
(* one reader per connection end, one dispatch loop per peer, and the      *)
(* threads that call RequestFile.  A step of the model is one stretch of   *)
(* code between two points where another goroutine can interfere (a lock,  *)
(* a channel operation, a socket operation, a sleep).                      *)
(***************************************************************************)
EXTENDS Integers, Sequences, FiniteSets, TLC

(***************************************************************************)
(* Bounds of the model.                                                    *)
(***************************************************************************)
\* connections dialed in one run
MaxConns == 2
\* RequestFile calls in one run
MaxCalls == 2
\* frames written through TCPPeer.SendMessage in one run
MaxRaw == 1
\* capacity of the inbound channel (stands for the 1024 of NewTCPTransport);
\* smaller than MaxCalls, so that a reader can find the channel full
QueueCap == 1

(***************************************************************************)
(* Program constants.                                                      *)
(***************************************************************************)
MessageTypeNormal == 2
MessageTypeFileRequest == 3
MessageTypeFileResponse == 4
maxRetries == 5

(***************************************************************************)
(* The peers, their addresses and their directories.                       *)
(***************************************************************************)
Peers == {"A", "B", "C"}
\* the threads of control that call RequestFile
ReqThreads == {"t1", "t2"}
\* everything that can be inside Send: a requesting thread, or the dispatch
\* loop of a peer (named by the peer)
Callers == ReqThreads \cup Peers

\* conn.RemoteAddr().String() of a connection dialed to p: numeric host:port
CanonAddr(p) == "127.0.0.1:" \o p
\* another text for the same listen address (a host name), as in the usage
\* "-peer localhost:3000"
AliasAddr(p) == "localhost:" \o p
\* the local (ephemeral) address of the dialing end of connection c
EphAddr(c) == "eph:" \o ToString(c)
NoPeer == "-"
\* the peer listening at addr, what net.Dial resolves
Resolve(addr) ==
  IF \E p \in Peers : addr \in {CanonAddr(p), AliasAddr(p)}
  THEN CHOOSE p \in Peers : addr \in {CanonAddr(p), AliasAddr(p)}
  ELSE NoPeer

\* p.id and p.listenAddr, as main builds them ("localhost:" + port)
PeerId(p) == "peer" \o p
ListenAddr(p) == AliasAddr(p)

FileNames == {"f", "g", "h"}
NoFile == "<absent>"
\* File names are relative paths: filepath.Join(dir, name) cleans the path
\* and does not keep it under dir.  The shared and the received directory
\* of a peer lie side by side (-shared ./shared -received ./received), so
\* the name Up(f) joined to either directory is the shared file f.
Up(f) == "../shared/" \o f
Paths == FileNames \cup {Up(f) : f \in FileNames}
IsUp(name) == \E f \in FileNames : name = Up(f)
\* the file of the shared directory that filepath.Join(sharedDir, name) names
Base(name) == IF IsUp(name) THEN CHOOSE f \in FileNames : name = Up(f) ELSE name
\* the files under each peer's shared directory (read-only to the protocol)
SharedFiles(p) ==
  CASE p = "A" -> {"f", "g"}
    [] p = "B" -> {"g"}
    [] OTHER -> {}
\* the bytes of sharedDir/f at peer p when the peer is constructed
FileData(p, f) == "bytes(" \o p \o "/" \o f \o ")"
FileSize(p, f) == IF f = "f" THEN 5 ELSE 7

(***************************************************************************)
(* protocol/types.go: Message and its payloads.                            *)
(***************************************************************************)
NilPayload == [kind |-> "nil", name |-> "", size |-> 0, data |-> ""]
FileRequest(fileName) ==
  [kind |-> "FileRequest", name |-> fileName, size |-> 0, data |-> ""]
FileResponse(name, size, data) ==
  [kind |-> "FileResponse", name |-> name, size |-> size, data |-> data]
\* a []byte payload (registered with gob in codec.go)
BytesPayload == [kind |-> "bytes", name |-> "", size |-> 0, data |-> ""]
Message(type, from, fromAddr, payload) ==
  [Type |-> type, From |-> from, FromAddr |-> fromAddr, Payload |-> payload]
\* &protocol.Message{}
ZeroMessage == Message(0, "", "", NilPayload)
MsgFields == {"Type", "From", "FromAddr", "Payload"}

(***************************************************************************)
(* protocol/encoder.go, decoder.go.  gob does not transmit a field that    *)
(* holds the zero value of its type, and decoding leaves a field that was  *)
(* not transmitted as it was in the destination.  A frame is what one      *)
(* Encode call writes.                                                     *)
(***************************************************************************)
Encode(msg) ==
  [torn |-> FALSE,
   sent |-> {k \in MsgFields : msg[k] # ZeroMessage[k]},
   val  |-> msg]
\* what is left of a frame whose first bytes were consumed by an earlier
\* decoder's read-ahead
TornFrame == [torn |-> TRUE, sent |-> {}, val |-> ZeroMessage]
DecodeFails(frame) == frame.torn
Decode(frame, msg) ==
  [k \in MsgFields |-> IF k \in frame.sent THEN frame.val[k] ELSE msg[k]]

(***************************************************************************)
(* State.                                                                  *)
(***************************************************************************)
VARIABLES
  listener,   \* [Peers -> {"nil", "listening", "closed"}]: t.listener
  peers,      \* [Peers -> registry]: t.peers, a map from address to connection
  messageCh,  \* [Peers -> Seq(Message)]: the buffered inbound channel
  chClosed,   \* [Peers -> BOOLEAN]: close(t.messageCh) has run
  crashed,    \* [Peers -> BOOLEAN]: the process died of a panic
  conns,      \* Seq of connections, indexed by connection id
  call,       \* [Callers -> the Send call this caller is in]
  req,        \* [ReqThreads -> the RequestFile call this thread is in]
  disp,       \* [Peers -> state of the dispatch loop handleMessages]
  received,   \* [Peers -> [Paths -> bytes]]: what os.WriteFile has written,
              \* by path relative to the received directory
  ncalls,     \* RequestFile calls made so far
  nraw,       \* TCPPeer.SendMessage calls made so far
  via         \* ghost, [Peers -> Seq(connection id)]: the connection each
              \* message of messageCh was read from

vars == <<listener, peers, messageCh, chClosed, crashed, conns, call, req,
          disp, received, ncalls, nraw, via>>

NoConn == 0
ConnIds == 1..Len(conns)
\* the two ends of a connection: "d" the dialing end, "a" the accepting end
Sides == {"d", "a"}
Other(s) == IF s = "d" THEN "a" ELSE "d"
Owner(c, s) == IF s = "d" THEN conns[c].dialer ELSE conns[c].acceptor
SideOf(p, c) == IF conns[c].dialer = p THEN "d" ELSE "a"
\* conn.RemoteAddr().String() as seen from end s of connection c
RemoteAddr(c, s) ==
  IF s = "d" THEN CanonAddr(conns[c].acceptor) ELSE EphAddr(c)

\* the registry as a map: lookup, insert, delete
Lookup(reg, addr) == IF addr \in DOMAIN reg THEN reg[addr] ELSE NoConn
Put(reg, addr, c) ==
  [a \in DOMAIN reg \cup {addr} |-> IF a = addr THEN c ELSE reg[a]]
Delete(reg, addr) == [a \in DOMAIN reg \ {addr} |-> reg[a]]
EmptyRegistry == [a \in {} |-> NoConn]

\* a Send call: where it is, its arguments, the connection it has looked up,
\* and (ghost) the connection the request it answers arrived on
IdleCall == [pc |-> "idle", addr |-> "", msg |-> ZeroMessage, conn |-> NoConn,
             arrived |-> NoConn]
IdleReq == [pc |-> "idle", peer |-> NoPeer, addr |-> "", file |-> "",
            i |-> 0, nsend |-> 0, nwritten |-> 0, result |-> "none"]

\* the peer a caller runs in
PeerOf(k) == IF k \in Peers THEN k ELSE req[k].peer

\* peer.New and NewTCPTransport: the state after construction
Init ==
  /\ listener = [p \in Peers |-> "nil"]
  /\ peers = [p \in Peers |-> EmptyRegistry]
  /\ messageCh = [p \in Peers |-> <<>>]
  /\ chClosed = [p \in Peers |-> FALSE]
  /\ crashed = [p \in Peers |-> FALSE]
  /\ conns = <<>>
  /\ call = [k \in Callers |-> IdleCall]
  /\ req = [t \in ReqThreads |-> IdleReq]
  /\ disp = [p \in Peers |-> "off"]
  /\ received = [p \in Peers |-> [f \in Paths |-> NoFile]]
  /\ ncalls = 0
  /\ nraw = 0
  /\ via = [p \in Peers |-> <<>>]

(***************************************************************************)
(* Sockets.  A panic ends the process: the operating system closes every   *)
(* socket the process holds.                                               *)
(***************************************************************************)
CloseEnds(cs, ends) ==
  [c \in DOMAIN cs |->
     [cs[c] EXCEPT !.sock =
        [s \in Sides |-> IF <<c, s>> \in ends THEN "closed" ELSE cs[c].sock[s]]]]
\* a connection to p still waiting in the listener's backlog
Pending(p) == {c \in ConnIds : conns[c].acceptor = p /\ conns[c].rd["a"] = "none"}

\* end s of connection c after its process is gone or its reader has left
DeadEnd(cn, s) ==
  [cn EXCEPT !.sock[s] = "closed", !.rd[s] = "exited",
             !.msg[s] = ZeroMessage, !.strm[s] = <<>>]

\* A panic ends the process of p: its sockets are closed, its goroutines
\* and its memory are gone (the received directory stays on disk)
Panic(p) ==
  /\ crashed' = [crashed EXCEPT ![p] = TRUE]
  /\ listener' = [listener EXCEPT ![p] = "closed"]
  /\ conns' = [c \in DOMAIN conns |->
                IF conns[c].dialer = p THEN DeadEnd(conns[c], "d")
                ELSE IF conns[c].acceptor = p THEN DeadEnd(conns[c], "a")
                ELSE conns[c]]
  /\ peers' = [peers EXCEPT ![p] = EmptyRegistry]
  /\ messageCh' = [messageCh EXCEPT ![p] = <<>>]
  /\ via' = [via EXCEPT ![p] = <<>>]
  /\ disp' = [disp EXCEPT ![p] = "dead"]
  /\ call' = [k \in Callers |-> IF PeerOf(k) = p THEN IdleCall ELSE call[k]]
  /\ req' = [t \in ReqThreads |-> IF req[t].peer = p THEN IdleReq ELSE req[t]]
  /\ UNCHANGED <<chClosed, received, ncalls, nraw>>

(***************************************************************************)
(* Peer.Start: StartListening opens the listener and spawns the accept     *)
(* loop; then the dispatch loop is spawned.                                *)
(***************************************************************************)
Start(p) ==
  /\ ~crashed[p]
  /\ listener[p] = "nil"
  /\ disp[p] = "off"
  /\ listener' = [listener EXCEPT ![p] = "listening"]
  /\ disp' = [disp EXCEPT ![p] = "recv"]
  /\ UNCHANGED <<peers, messageCh, chClosed, crashed, conns, call, req,
                 received, ncalls, nraw, via>>

(***************************************************************************)
(* handleIncomingConnections: Accept returns a connection of the backlog   *)
(* and a reader goroutine is spawned for it.                               *)
(***************************************************************************)
\* mutant: the accept loop hands the connection over only when the
\* inbound queue has room
AcceptWhenQueueHasRoom(c) ==
  /\ c \in ConnIds
  /\ LET p == conns[c].acceptor IN
       /\ ~crashed[p]
       /\ listener[p] = "listening"
       /\ conns[c].rd["a"] = "none"
       /\ conns[c].sock["a"] = "open"
       /\ Len(messageCh[p]) < QueueCap
       /\ conns' = [conns EXCEPT ![c].rd["a"] = "spawned"]
  /\ UNCHANGED <<listener, peers, messageCh, chClosed, crashed, call, req,
                 disp, received, ncalls, nraw, via>>

Accept(c) ==
  /\ c \in ConnIds
  /\ LET p == conns[c].acceptor IN
       /\ ~crashed[p]
       /\ listener[p] = "listening"
       /\ conns[c].rd["a"] = "none"
       /\ conns[c].sock["a"] = "open"
       /\ conns' = [conns EXCEPT ![c].rd["a"] = "spawned"]
  /\ UNCHANGED <<listener, peers, messageCh, chClosed, crashed, call, req,
                 disp, received, ncalls, nraw, via>>

(***************************************************************************)
(* managePeerConnection, the reader of end s of connection c.              *)
(***************************************************************************)
\* t.peers[conn.RemoteAddr().String()] = conn
ReaderRegister(c, s) ==
  /\ c \in ConnIds
  /\ LET p == Owner(c, s) IN
       /\ ~crashed[p]
       /\ conns[c].rd[s] = "spawned"
       /\ peers' = [peers EXCEPT ![p] = Put(@, RemoteAddr(c, s), c)]
       /\ conns' = [conns EXCEPT ![c].rd[s] = "loop"]
  /\ UNCHANGED <<listener, messageCh, chClosed, crashed, call, req, disp,
                 received, ncalls, nraw, via>>

\* What a fresh gob decoder leaves of the frames that follow the one it
\* decodes.  gob.NewDecoder wraps the connection in a bufio.Reader, whose
\* fill reads whatever bytes have arrived; Decode builds a new decoder per
\* call, so bytes read ahead are lost with the old one.  Of the frames
\* behind the head, the first n are swallowed whole, and the next one is
\* either untouched or torn.
AfterReadAhead(rest) ==
  {SubSeq(rest, n + 1, Len(rest)) : n \in 0..Len(rest)}
    \cup {<<TornFrame>> \o SubSeq(rest, n + 2, Len(rest)) : n \in 0..(Len(rest) - 1)}

\* mutant: the reader keeps the FromAddr the sender wrote
StampKeepsSender(msg, c, s) == msg

\* msg.FromAddr = conn.RemoteAddr().String()
Stamp(msg, c, s) == [msg EXCEPT !.FromAddr = RemoteAddr(c, s)]

\* Decode returned a message: stamp FromAddr, then go and enqueue it
ReaderDecode(c, s) ==
  /\ c \in ConnIds
  /\ LET p == Owner(c, s)
         strm == conns[c].strm[s] IN
       /\ ~crashed[p]
       /\ conns[c].rd[s] = "loop"
       /\ conns[c].sock[s] = "open"
       /\ strm # <<>>
       /\ ~DecodeFails(Head(strm))
       /\ \E rest \in AfterReadAhead(Tail(strm)) :
            LET m == Stamp(Decode(Head(strm), conns[c].msg[s]), c, s) IN
              /\ conns' = [conns EXCEPT ![c].rd[s] = "hold",
                                        ![c].msg[s] = m,
                                        ![c].strm[s] = rest]
  /\ UNCHANGED <<listener, peers, messageCh, chClosed, crashed, call, req,
                 disp, received, ncalls, nraw, via>>

\* t.messageCh <- *msg, which blocks while the channel is full
ReaderEnqueue(c, s) ==
  /\ c \in ConnIds
  /\ LET p == Owner(c, s) IN
       /\ ~crashed[p]
       /\ conns[c].rd[s] = "hold"
       /\ ~chClosed[p]
       /\ Len(messageCh[p]) < QueueCap
       /\ messageCh' = [messageCh EXCEPT ![p] = Append(@, conns[c].msg[s])]
       /\ via' = [via EXCEPT ![p] = Append(@, c)]
       /\ conns' = [conns EXCEPT ![c].rd[s] = "loop"]
  /\ UNCHANGED <<listener, peers, chClosed, crashed, call, req, disp,
                 received, ncalls, nraw>>

\* a send on a closed channel panics
ReaderEnqueueClosed(c, s) ==
  /\ c \in ConnIds
  /\ LET p == Owner(c, s) IN
       /\ ~crashed[p]
       /\ conns[c].rd[s] = "hold"
       /\ chClosed[p]
       /\ Panic(p)

\* Decode returns an error: the socket was closed under the reader, the
\* stream ended (io.EOF), or the bytes do not decode
DecodeError(c, s) ==
  \/ conns[c].sock[s] = "closed"
  \/ conns[c].strm[s] = <<>> /\ conns[c].sock[Other(s)] = "closed"
  \/ conns[c].strm[s] # <<>> /\ DecodeFails(Head(conns[c].strm[s]))

\* the deferred calls of managePeerConnection: delete the registry entry
\* of the remote address, then close the connection
ReaderCleanup(reg, c, s) == Delete(reg, RemoteAddr(c, s))

ReaderExit(c, s) ==
  /\ c \in ConnIds
  /\ LET p == Owner(c, s) IN
       /\ ~crashed[p]
       /\ conns[c].rd[s] = "loop"
       /\ DecodeError(c, s)
       /\ peers' = [peers EXCEPT ![p] = ReaderCleanup(@, c, s)]
       /\ conns' = [conns EXCEPT ![c] = DeadEnd(@, s)]
  /\ UNCHANGED <<listener, messageCh, chClosed, crashed, call, req, disp,
                 received, ncalls, nraw, via>>

(***************************************************************************)
(* TCPTransport.Send, called by caller k (a RequestFile thread or a        *)
(* dispatch loop).  call[k].pc walks lookup -> encode, or lookup -> dial   *)
(* -> wait -> (second lookup and encode), and ends in "ok" or "err".       *)
(***************************************************************************)
SendCall(addr, msg) ==
  [pc |-> "lookup", addr |-> addr, msg |-> msg, conn |-> NoConn,
   arrived |-> NoConn]

\* mutant: Send dials without looking at the registry
SendLookupAlwaysDials(k) ==
  /\ call[k].pc = "lookup"
  /\ ~crashed[PeerOf(k)]
  /\ call' = [call EXCEPT ![k].pc = "dial"]
  /\ UNCHANGED <<listener, peers, messageCh, chClosed, crashed, conns, req,
                 disp, received, ncalls, nraw, via>>

\* conn, exists := t.peers[addr]
SendLookup(k) ==
  /\ call[k].pc = "lookup"
  /\ ~crashed[PeerOf(k)]
  /\ LET c == Lookup(peers[PeerOf(k)], call[k].addr) IN
       /\ call' = [call EXCEPT ![k].conn = c,
                               ![k].pc = IF c # NoConn THEN "encode" ELSE "dial"]
  /\ UNCHANGED <<listener, peers, messageCh, chClosed, crashed, conns, req,
                 disp, received, ncalls, nraw, via>>

\* net.Dial succeeds when a peer listens at the address
DialSucceeds(addr) ==
  /\ Resolve(addr) # NoPeer
  /\ listener[Resolve(addr)] = "listening"

NewConn(p, q) ==
  [dialer |-> p, acceptor |-> q,
   sock |-> [s \in Sides |-> "open"],
   rd   |-> [s \in Sides |-> IF s = "d" THEN "spawned" ELSE "none"],
   msg  |-> [s \in Sides |-> ZeroMessage],
   strm |-> [s \in Sides |-> <<>>]]

\* ConnectToPeer: dial, register the connection under the address as it
\* was given, spawn its reader
ConnectToPeer(k) ==
  /\ call[k].pc = "dial"
  /\ ~crashed[PeerOf(k)]
  /\ DialSucceeds(call[k].addr)
  /\ Len(conns) < MaxConns
  /\ LET p == PeerOf(k)
         c == Len(conns) + 1 IN
       /\ conns' = Append(conns, NewConn(p, Resolve(call[k].addr)))
       /\ peers' = [peers EXCEPT ![p] = Put(@, call[k].addr, c)]
       /\ call' = [call EXCEPT ![k].pc = "wait"]
  /\ UNCHANGED <<listener, messageCh, chClosed, crashed, req, disp, received,
                 ncalls, nraw, via>>

\* the dial fails and Send returns the error
ConnectFails(k) ==
  /\ call[k].pc = "dial"
  /\ ~crashed[PeerOf(k)]
  /\ ~DialSucceeds(call[k].addr)
  /\ call' = [call EXCEPT ![k].pc = "err"]
  /\ UNCHANGED <<listener, peers, messageCh, chClosed, crashed, conns, req,
                 disp, received, ncalls, nraw, via>>

\* The results encoder.Encode(conn, &msg) can have on end s of c: a write
\* on a socket closed on this side fails; when only the far side is gone
\* the bytes are accepted and lost, or the write fails
WriteResults(c, s) ==
  IF conns[c].sock[s] = "closed" THEN {"err"}
  ELSE IF conns[c].sock[Other(s)] = "closed" THEN {"lost", "err"}
  ELSE {"ok"}

\* the connections after that write
Written(c, s, msg, r) ==
  IF r = "ok"
  THEN [conns EXCEPT ![c].strm[Other(s)] = Append(@, Encode(msg))]
  ELSE conns

\* ghost: the frames a RequestFile call has handed to the transport
CountWritten(k, r) ==
  IF k \in ReqThreads /\ r # "err"
  THEN [req EXCEPT ![k].nwritten = @ + 1]
  ELSE req

\* the caller found a registered connection: encode on it
SendEncode(k) ==
  /\ call[k].pc = "encode"
  /\ ~crashed[PeerOf(k)]
  /\ LET p == PeerOf(k)
         c == call[k].conn
         s == SideOf(p, c) IN
       \E r \in WriteResults(c, s) :
         /\ conns' = Written(c, s, call[k].msg, r)
         /\ call' = [call EXCEPT ![k].pc = IF r = "err" THEN "err" ELSE "ok"]
         /\ req' = CountWritten(k, r)
  /\ UNCHANGED <<listener, peers, messageCh, chClosed, crashed, disp,
                 received, ncalls, nraw, via>>

\* after the 100 ms sleep: conn = t.peers[addr]; nil is an error, else encode
SendAfterWait(k) ==
  /\ call[k].pc = "wait"
  /\ ~crashed[PeerOf(k)]
  /\ LET p == PeerOf(k)
         c == Lookup(peers[p], call[k].addr) IN
       IF c = NoConn
       THEN /\ call' = [call EXCEPT ![k].pc = "err"]
            /\ UNCHANGED <<conns, req>>
       ELSE \E r \in WriteResults(c, SideOf(p, c)) :
              /\ conns' = Written(c, SideOf(p, c), call[k].msg, r)
              /\ call' = [call EXCEPT ![k].conn = c,
                                      ![k].pc = IF r = "err" THEN "err" ELSE "ok"]
              /\ req' = CountWritten(k, r)
  /\ UNCHANGED <<listener, peers, messageCh, chClosed, crashed, disp,
                 received, ncalls, nraw, via>>

(***************************************************************************)
(* Peer.RequestFile, called on peer p by thread t.                         *)
(***************************************************************************)
RequestMsg(p, fileName) ==
  Message(MessageTypeFileRequest, PeerId(p), "", FileRequest(fileName))

\* the call starts: build the message, enter the retry loop with i = 0 and
\* make the first Send
RequestFile(t, p, peerAddr, fileName) ==
  /\ req[t].pc \in {"idle", "done"}
  /\ ~crashed[p]
  /\ ncalls < MaxCalls
  /\ Resolve(peerAddr) # p
  /\ ncalls' = ncalls + 1
  /\ req' = [req EXCEPT ![t] = [pc |-> "sending", peer |-> p,
                                addr |-> peerAddr, file |-> fileName,
                                i |-> 0, nsend |-> 1, nwritten |-> 0,
                                result |-> "none"]]
  /\ call' = [call EXCEPT ![t] = SendCall(peerAddr, RequestMsg(p, fileName))]
  /\ UNCHANGED <<listener, peers, messageCh, chClosed, crashed, conns, disp,
                 received, nraw, via>>

\* mutant: a successful Send does not end the loop
RequestFileOkGoesOn(t) ==
  /\ req[t].pc = "sending"
  /\ ~crashed[req[t].peer]
  /\ call[t].pc = "ok"
  /\ req' = [req EXCEPT ![t].i = @ + 1, ![t].nsend = @ + 1,
                        ![t].pc = IF req[t].i + 1 < maxRetries
                                  THEN "sending" ELSE "done",
                        ![t].result = "ok"]
  /\ call' = [call EXCEPT ![t] =
                IF req[t].i + 1 < maxRetries
                THEN SendCall(req[t].addr, call[t].msg) ELSE IdleCall]
  /\ UNCHANGED <<listener, peers, messageCh, chClosed, crashed, conns, disp,
                 received, ncalls, nraw, via>>

\* err == nil: return nil
RequestFileOk(t) ==
  /\ req[t].pc = "sending"
  /\ ~crashed[req[t].peer]
  /\ call[t].pc = "ok"
  /\ req' = [req EXCEPT ![t].pc = "done", ![t].result = "ok"]
  /\ call' = [call EXCEPT ![t] = IdleCall]
  /\ UNCHANGED <<listener, peers, messageCh, chClosed, crashed, conns, disp,
                 received, ncalls, nraw, via>>

\* mutant: the loop bound is off by one (i <= maxRetries)
RetryStepOneMore(r) ==
  IF r.i + 1 <= maxRetries
  THEN [r EXCEPT !.i = @ + 1, !.nsend = @ + 1]
  ELSE [r EXCEPT !.i = @ + 1, !.pc = "done", !.result = "err"]

\* the attempt failed: sleep, i++, and either send again or give up
RetryStep(r) ==
  IF r.i + 1 < maxRetries
  THEN [r EXCEPT !.i = @ + 1, !.nsend = @ + 1]
  ELSE [r EXCEPT !.i = @ + 1, !.pc = "done", !.result = "err"]

RequestFileRetry(t) ==
  /\ req[t].pc = "sending"
  /\ ~crashed[req[t].peer]
  /\ call[t].pc = "err"
  /\ req' = [req EXCEPT ![t] = RetryStep(@)]
  /\ call' = [call EXCEPT ![t] =
                IF RetryStep(req[t]).pc = "done" THEN IdleCall
                ELSE SendCall(req[t].addr, call[t].msg)]
  /\ UNCHANGED <<listener, peers, messageCh, chClosed, crashed, conns, disp,
                 received, ncalls, nraw, via>>

(***************************************************************************)
(* Peer.handleMessages: the dispatch loop of peer p takes the next message *)
(* of the inbound channel and switches on its type.                        *)
(***************************************************************************)
Receiving(p) ==
  /\ ~crashed[p]
  /\ disp[p] = "recv"
  /\ messageCh[p] # <<>>

\* msg.Payload.(*protocol.FileRequest) and msg.Payload.(*protocol.FileResponse)
\* are unchecked type assertions: they panic on any other payload
AssertionHolds(msg) ==
  \/ msg.Type = MessageTypeFileRequest /\ msg.Payload.kind = "FileRequest"
  \/ msg.Type = MessageTypeFileResponse /\ msg.Payload.kind = "FileResponse"

\* the bytes of sharedDir/f now: as constructed, or as written since
ReadShared(p, f) ==
  IF received[p][Up(f)] # NoFile THEN received[p][Up(f)] ELSE FileData(p, f)

ResponseMsg(p, fileName) ==
  Message(MessageTypeFileResponse, PeerId(p), ListenAddr(p),
          FileResponse(fileName, FileSize(p, Base(fileName)),
                       ReadShared(p, Base(fileName))))

\* os.Open(filepath.Join(sharedDir, fileName)) succeeds on the files of the
\* shared directory
CanOpen(p, fileName) ==
  \/ Base(fileName) \in SharedFiles(p)
  \/ received[p][Up(Base(fileName))] # NoFile

\* mutant: the response goes to some registered address
ReplyAddrAnyRegistered(p, msg) ==
  IF DOMAIN peers[p] = {} THEN msg.FromAddr
  ELSE CHOOSE a \in DOMAIN peers[p] : a # msg.FromAddr \/ DOMAIN peers[p] = {a}

\* the address handleFileRequest sends the response to
ReplyAddr(p, msg) == msg.FromAddr

\* handleFileRequest, the file is there: read it and Send the response to
\* msg.FromAddr
HandleFileRequest(p) ==
  /\ Receiving(p)
  /\ LET msg == Head(messageCh[p]) IN
       /\ msg.Type = MessageTypeFileRequest
       /\ AssertionHolds(msg)
       /\ CanOpen(p, msg.Payload.name)
       /\ messageCh' = [messageCh EXCEPT ![p] = Tail(@)]
       /\ via' = [via EXCEPT ![p] = Tail(@)]
       /\ disp' = [disp EXCEPT ![p] = "send"]
       /\ call' = [call EXCEPT ![p] =
                     [SendCall(ReplyAddr(p, msg), ResponseMsg(p, msg.Payload.name))
                        EXCEPT !.arrived = Head(via[p])]]
  /\ UNCHANGED <<listener, peers, chClosed, crashed, conns, req, received,
                 ncalls, nraw>>

\* mutant: a missing file is answered with an empty response
HandleFileRequestMissingReplies(p) ==
  /\ Receiving(p)
  /\ LET msg == Head(messageCh[p]) IN
       /\ msg.Type = MessageTypeFileRequest
       /\ AssertionHolds(msg)
       /\ ~CanOpen(p, msg.Payload.name)
       /\ messageCh' = [messageCh EXCEPT ![p] = Tail(@)]
       /\ via' = [via EXCEPT ![p] = Tail(@)]
       /\ disp' = [disp EXCEPT ![p] = "send"]
       /\ call' = [call EXCEPT ![p] =
                     SendCall(ReplyAddr(p, msg),
                              Message(MessageTypeFileResponse, PeerId(p),
                                      ListenAddr(p),
                                      FileResponse(msg.Payload.name, 0, "")))]
  /\ UNCHANGED <<listener, peers, chClosed, crashed, conns, req, received,
                 ncalls, nraw>>

\* handleFileRequest, os.Open fails: log "File not found" and return
HandleFileRequestMissing(p) ==
  /\ Receiving(p)
  /\ LET msg == Head(messageCh[p]) IN
       /\ msg.Type = MessageTypeFileRequest
       /\ AssertionHolds(msg)
       /\ ~CanOpen(p, msg.Payload.name)
       /\ messageCh' = [messageCh EXCEPT ![p] = Tail(@)]
       /\ via' = [via EXCEPT ![p] = Tail(@)]
  /\ UNCHANGED <<listener, peers, chClosed, crashed, conns, call, req, disp,
                 received, ncalls, nraw>>

\* the Send of handleFileRequest returned (its error is only logged)
HandleFileRequestDone(p) ==
  /\ ~crashed[p]
  /\ disp[p] = "send"
  /\ call[p].pc \in {"ok", "err"}
  /\ disp' = [disp EXCEPT ![p] = "recv"]
  /\ call' = [call EXCEPT ![p] = IdleCall]
  /\ UNCHANGED <<listener, peers, messageCh, chClosed, crashed, conns, req,
                 received, ncalls, nraw, via>>

\* os.WriteFile(filepath.Join(receivedDir, resp.Name), resp.Data)
WriteFile(dir, name, data) == [dir EXCEPT ![name] = data]

\* handleFileResponse
HandleFileResponse(p) ==
  /\ Receiving(p)
  /\ LET msg == Head(messageCh[p]) IN
       /\ msg.Type = MessageTypeFileResponse
       /\ AssertionHolds(msg)
       /\ messageCh' = [messageCh EXCEPT ![p] = Tail(@)]
       /\ via' = [via EXCEPT ![p] = Tail(@)]
       /\ received' = [received EXCEPT ![p] =
                         WriteFile(@, msg.Payload.name, msg.Payload.data)]
  /\ UNCHANGED <<listener, peers, chClosed, crashed, conns, call, req, disp,
                 ncalls, nraw>>

\* a failed type assertion in a handler ends the process
HandlePanic(p) ==
  /\ Receiving(p)
  /\ LET msg == Head(messageCh[p]) IN
       /\ msg.Type \in {MessageTypeFileRequest, MessageTypeFileResponse}
       /\ ~AssertionHolds(msg)
       /\ Panic(p)

\* mutant: a message of another type ends the dispatch loop
HandleOtherStops(p) ==
  /\ Receiving(p)
  /\ LET msg == Head(messageCh[p]) IN
       /\ msg.Type \notin {MessageTypeFileRequest, MessageTypeFileResponse}
       /\ messageCh' = [messageCh EXCEPT ![p] = Tail(@)]
       /\ via' = [via EXCEPT ![p] = Tail(@)]
       /\ disp' = [disp EXCEPT ![p] = "done"]
  /\ UNCHANGED <<listener, peers, chClosed, crashed, conns, call, req,
                 received, ncalls, nraw>>

\* the switch has no case for any other type
HandleOther(p) ==
  /\ Receiving(p)
  /\ LET msg == Head(messageCh[p]) IN
       /\ msg.Type \notin {MessageTypeFileRequest, MessageTypeFileResponse}
       /\ messageCh' = [messageCh EXCEPT ![p] = Tail(@)]
       /\ via' = [via EXCEPT ![p] = Tail(@)]
  /\ UNCHANGED <<listener, peers, chClosed, crashed, conns, call, req, disp,
                 received, ncalls, nraw>>

\* range over a closed and drained channel ends the loop
HandleMessagesEnd(p) ==
  /\ ~crashed[p]
  /\ disp[p] = "recv"
  /\ messageCh[p] = <<>>
  /\ chClosed[p]
  /\ disp' = [disp EXCEPT ![p] = "done"]
  /\ UNCHANGED <<listener, peers, messageCh, chClosed, crashed, conns, call,
                 req, received, ncalls, nraw, via>>

(***************************************************************************)
(* Peer.SendFile, called on peer p by thread t: os.Stat of the path under  *)
(* the shared directory, and the result.                                   *)
(***************************************************************************)
\* mutant: SendFile reports every name as ready
SendFileAlwaysReady(t, p, fileName) ==
  /\ req[t].pc \in {"idle", "checked"}
  /\ ~crashed[p]
  /\ req' = [req EXCEPT ![t] = [IdleReq EXCEPT !.pc = "checked", !.peer = p,
                                               !.file = fileName,
                                               !.result = "ok"]]
  /\ UNCHANGED <<listener, peers, messageCh, chClosed, crashed, conns, call,
                 disp, received, ncalls, nraw, via>>

SendFile(t, p, fileName) ==
  /\ req[t].pc \in {"idle", "checked"}
  /\ ~crashed[p]
  /\ req' = [req EXCEPT ![t] = [IdleReq EXCEPT !.pc = "checked", !.peer = p,
                                               !.file = fileName,
                                               !.result = IF CanOpen(p, fileName)
                                                          THEN "ok" ELSE "err"]]
  /\ UNCHANGED <<listener, peers, messageCh, chClosed, crashed, conns, call,
                 disp, received, ncalls, nraw, via>>

(***************************************************************************)
(* TCPTransport.Shutdown: close the listener (the kernel resets what waits *)
(* in its backlog), close every registered connection, close the channel.  *)
(* The callers of the model shut a peer down at most once (a second        *)
(* close(t.messageCh) would panic).                                        *)
(***************************************************************************)
\* mutant: Shutdown closes the listener and the channel only
RegisteredNone(p) == {}

Registered(p) == {<<peers[p][a], SideOf(p, peers[p][a])>> : a \in DOMAIN peers[p]}

Shutdown(p) ==
  /\ ~crashed[p]
  /\ ~chClosed[p]
  /\ listener' = [listener EXCEPT ![p] = IF @ = "nil" THEN @ ELSE "closed"]
  /\ conns' = CloseEnds(conns, Registered(p) \cup {<<c, "a">> : c \in Pending(p)})
  /\ chClosed' = [chClosed EXCEPT ![p] = TRUE]
  /\ UNCHANGED <<peers, messageCh, crashed, call, req, disp, received, ncalls,
                 nraw, via>>

(***************************************************************************)
(* TCPPeer.SendMessage(payload []byte, msgType): a frame with any type tag *)
(* and a []byte payload, written on end s of connection c.                 *)
(***************************************************************************)
RawMsg(msgType) == Message(msgType, "", "", BytesPayload)

SendMessage(c, s, msgType) ==
  /\ c \in ConnIds
  /\ nraw < MaxRaw
  /\ ~crashed[Owner(c, s)]
  /\ \E r \in WriteResults(c, s) :
       /\ conns' = Written(c, s, RawMsg(msgType), r)
  /\ nraw' = nraw + 1
  /\ UNCHANGED <<listener, peers, messageCh, chClosed, crashed, call, req,
                 disp, received, ncalls, via>>

(***************************************************************************)
(* The next-state relations.                                               *)
(***************************************************************************)
AllConnIds == 1..MaxConns

\* the goroutines of the transport and of the peer, and the calls in flight
Transfer ==
  \/ \E c \in AllConnIds :
       \/ Accept(c)
       \/ \E s \in Sides :
            \/ ReaderRegister(c, s)
            \/ ReaderDecode(c, s)
            \/ ReaderEnqueue(c, s)
  \/ \E k \in Callers :
       \/ SendLookup(k)
       \/ ConnectToPeer(k)
       \/ ConnectFails(k)
       \/ SendEncode(k)
       \/ SendAfterWait(k)
  \/ \E t \in ReqThreads :
       \/ RequestFileOk(t)
       \/ RequestFileRetry(t)
  \/ \E p \in Peers :
       \/ HandleFileRequest(p)
       \/ HandleFileRequestDone(p)
       \/ HandleFileResponse(p)

\* the steps above, and the readers that end on an error
Running ==
  \/ Transfer
  \/ \E c \in AllConnIds, s \in Sides : ReaderExit(c, s)

\* thread t on peer p calls RequestFile with one of the addresses and names
Requests(T, P, A, F) ==
  \E t \in T, p \in P, a \in A, f \in F : RequestFile(t, p, a, f)

\* Normal operation: peers A and B are started at any time, and B requests
\* files of A, present and absent, by either text of A's address.
Next ==
  \/ Running
  \/ \E p \in {"A", "B"} : Start(p)
  \/ Requests({"t1"}, {"B"}, {CanonAddr("A"), AliasAddr("A")}, {"f", "h"})
  \/ \E p \in {"A", "B"} : HandleFileRequestMissing(p)

Spec == Init /\ [][Next]_vars

\* Operation with shutdown: as above with one text of the address, and
\* either peer may be shut down at any time.
NextShutdown ==
  \/ Running
  \/ \E p \in {"A", "B"} : Start(p)
  \/ Requests({"t1"}, {"B"}, {AliasAddr("A")}, {"f"})
  \/ \E p \in {"A", "B"} : Shutdown(p) \/ HandleMessagesEnd(p)
  \/ \E c \in AllConnIds, s \in Sides : ReaderEnqueueClosed(c, s)

SpecShutdown == Init /\ [][NextShutdown]_vars

\* Operation with foreign frames: a TCPPeer writes frames of any type on
\* the connections.
RawTypes == {MessageTypeNormal, MessageTypeFileRequest, MessageTypeFileResponse}

NextRaw ==
  \/ Running
  \/ \E p \in {"A", "B"} : Start(p)
  \/ Requests({"t1"}, {"B"}, {CanonAddr("A")}, {"f"})
  \/ \E c \in AllConnIds, s \in Sides, ty \in RawTypes : SendMessage(c, s, ty)
  \/ \E p \in {"A", "B"} : HandleOther(p) \/ HandlePanic(p)

SpecRaw == Init /\ [][NextRaw]_vars

\* Two requesters: B requests f and C requests g from A, concurrently.
NextCross ==
  \/ Transfer
  \/ \E p \in {"A", "B", "C"} : Start(p)
  \/ req["t1"].pc = "idle" /\ RequestFile("t1", "B", CanonAddr("A"), "f")
  \/ req["t2"].pc = "idle" /\ RequestFile("t2", "C", CanonAddr("A"), "g")

SpecCross == Init /\ [][NextCross]_vars

\* Normal operation under fair scheduling: every goroutine that can take a
\* step eventually takes one (the Go scheduler starves no runnable
\* goroutine), and main starts each peer.
NextFair ==
  \/ Running
  \/ \E p \in {"A", "B"} : Start(p)
  \/ Requests({"t1"}, {"B"}, {CanonAddr("A")}, {"f", "g"})

Fairness ==
  /\ \A p \in {"A", "B"} : WF_vars(Start(p))
  /\ \A c \in AllConnIds : WF_vars(Accept(c))
  /\ \A c \in AllConnIds : \A s \in Sides :
       WF_vars(ReaderRegister(c, s) \/ ReaderDecode(c, s)
                 \/ ReaderEnqueue(c, s) \/ ReaderExit(c, s))
  /\ \A k \in Callers :
       WF_vars(SendLookup(k) \/ ConnectToPeer(k) \/ ConnectFails(k)
                 \/ SendEncode(k) \/ SendAfterWait(k))
  /\ \A t \in ReqThreads : WF_vars(RequestFileOk(t) \/ RequestFileRetry(t))
  /\ \A p \in Peers :
       WF_vars(HandleFileRequest(p) \/ HandleFileRequestDone(p)
                 \/ HandleFileResponse(p))

FairSpec == Init /\ [][NextFair]_vars /\ Fairness

\* Requests by path: B requests g of A by its plain name and by a name that
\* leads through the parent directory.
NextPaths ==
  \/ Running
  \/ \E p \in {"A", "B"} : Start(p)
  \/ Requests({"t1"}, {"B"}, {CanonAddr("A")}, {"g", Up("g")})

SpecPaths == Init /\ [][NextPaths]_vars

\* Availability checks: while B requests g of A, a second thread calls
\* SendFile on either peer, for a name that is shared and one that is not.
NextSendFile ==
  \/ Running
  \/ \E p \in {"A", "B"} : Start(p)
  \/ Requests({"t1"}, {"B"}, {CanonAddr("A")}, {"g"})
  \/ \E p \in {"A", "B"}, f \in {"g", "h"} : SendFile("t2", p, f)

SpecSendFile == Init /\ [][NextSendFile]_vars

\* Requests in both directions: B requests f of A, and A requests g of B at
\* the address it knows B by, the remote address of B's connection.
NextBack ==
  \/ Running
  \/ \E p \in {"A", "B"} : Start(p)
  \/ RequestFile("t1", "B", AliasAddr("A"), "f")
  \/ RequestFile("t2", "A", EphAddr(1), "g")

SpecBack == Init /\ [][NextBack]_vars

\* Two concurrent requests to one address: two threads of B request f of A
\* at the same text of A's address, once each.
NextTwin ==
  \/ Running
  \/ \E p \in {"A", "B"} : Start(p)
  \/ \E t \in ReqThreads :
       req[t].pc = "idle" /\ RequestFile(t, "B", CanonAddr("A"), "f")

SpecTwin == Init /\ [][NextTwin]_vars

\* Requests over a connection that drops: B requests f of A by the host
\* name of A's address, again and again, and a frame of another type
\* written on the connection behind a request ends A's reader of it.
NextRetry ==
  \/ Running
  \/ \E p \in {"A", "B"} : Start(p)
  \/ RequestFile("t1", "B", AliasAddr("A"), "f")
  \/ \E c \in AllConnIds : SendMessage(c, "d", MessageTypeNormal)
  \/ HandleOther("A")

SpecRetry == Init /\ [][NextRetry]_vars

\* Operation with frames of another type: B requests f of A, and a TCPPeer
\* at the dialing end writes frames of type MessageTypeNormal.
NextOther ==
  \/ Running
  \/ \E p \in {"A", "B"} : Start(p)
  \/ Requests({"t1"}, {"B"}, {CanonAddr("A")}, {"f"})
  \/ \E c \in AllConnIds : SendMessage(c, "d", MessageTypeNormal)
  \/ HandleOther("A")

SpecOther == Init /\ [][NextOther]_vars

(***************************************************************************)
(* The claims.                                                             *)
(***************************************************************************)
Done(t) == req[t].pc = "done"

\* C2: a RequestFile call all of whose Sends fail makes exactly 5 Sends and
\* then returns the terminal error; no call ever makes a 6th Send, and the
\* loop counter stays below 5 while a Send is in flight.
C2_FiveAttemptsThenError ==
  \A t \in ReqThreads :
    /\ req[t].nsend <= 5
    /\ req[t].pc = "sending" => req[t].i < 5 /\ req[t].nsend = req[t].i + 1
    /\ Done(t) /\ req[t].nwritten = 0 => req[t].nsend = 5 /\ req[t].result = "err"
    /\ Done(t) /\ req[t].result = "err" => req[t].nsend = 5 /\ req[t].nwritten = 0

\* B's call against A, which was never started, has returned the error
\* after five Sends
C2_Witness ==
  /\ listener["A"] = "nil"
  /\ Done("t1") /\ req["t1"].result = "err" /\ req["t1"].nsend = 5
  /\ Resolve(req["t1"].addr) = "A"

\* C3: RequestFile returns success exactly when one of its at most 5 Sends
\* succeeded, and it makes no Send after a successful one: a call hands at
\* most one FileRequest to the transport.
C3_ReturnsAtFirstSuccess ==
  \A t \in ReqThreads :
    /\ req[t].nwritten <= 1
    /\ req[t].nsend <= 5
    /\ Done(t) => (req[t].result = "ok" <=> req[t].nwritten = 1)
    /\ req[t].nwritten = 1 /\ ~Done(t) => call[t].pc = "ok"

\* a call that succeeded on a later attempt, after failed ones
C3_Witness ==
  /\ Done("t1") /\ req["t1"].result = "ok"
  /\ req["t1"].nsend > 1 /\ req["t1"].nwritten = 1

\* the names some peer shares
SharedSomewhere == UNION {SharedFiles(p) : p \in Peers}

\* the dispatch loop of p takes a FileRequest for a file p does not have
TakesMissingRequest(p) ==
  /\ Receiving(p)
  /\ Head(messageCh[p]).Type = MessageTypeFileRequest
  /\ Head(messageCh[p]).Payload.kind = "FileRequest"
  /\ Head(messageCh[p]).Payload.name \notin SharedFiles(p)
  /\ messageCh'[p] = Tail(messageCh[p])

\* C4: a FileRequest for a file the responder does not have is dropped: the
\* step that handles it writes no received file, writes on no connection,
\* starts no Send and leaves the dispatch loop receiving; and no received
\* directory ever holds a file that no peer shares.
C4_MissingFileIsDropped ==
  /\ [](\A p \in Peers : \A n \in FileNames \ SharedSomewhere :
          received[p][n] = NoFile)
  /\ [][\A p \in Peers : TakesMissingRequest(p) =>
          /\ received' = received
          /\ conns' = conns
          /\ call' = call
          /\ peers' = peers
          /\ disp'[p] = "recv" /\ ~crashed'[p]]_vars

\* A's reader decoded the request for "h", and the dispatch loop has taken
\* it from the channel and is receiving again
C4_Witness ==
  \E c \in ConnIds :
    /\ conns[c].acceptor = "A" /\ conns[c].rd["a"] = "loop"
    /\ conns[c].msg["a"].Payload = FileRequest("h")
    /\ messageCh["A"] = <<>> /\ disp["A"] = "recv"
    /\ Done("t1") /\ req["t1"].file = "h" /\ req["t1"].result = "ok"

\* C8: every message on an inbound channel, and every message a reader is
\* about to put there, carries as FromAddr the remote address of the
\* connection it was read from.
C8_FromAddrIsRemoteAddr ==
  /\ \A p \in Peers : \A i \in 1..Len(messageCh[p]) :
       messageCh[p][i].FromAddr = RemoteAddr(via[p][i], SideOf(p, via[p][i]))
  /\ \A c \in ConnIds : \A s \in Sides :
       conns[c].rd[s] = "hold" => conns[c].msg[s].FromAddr = RemoteAddr(c, s)

\* a FileResponse of A, sent with FromAddr = A's listenAddr, is on B's
\* channel with the remote address of the connection instead
C8_Witness ==
  \E i \in 1..Len(messageCh["B"]) :
    /\ messageCh["B"][i].Type = MessageTypeFileResponse
    /\ messageCh["B"][i].FromAddr = CanonAddr("A")
    /\ ListenAddr("A") # CanonAddr("A")

\* C1 (the claim): whenever B's RequestFile(A, f) has handed its request to
\* the transport, for a file f that A shares, B's received directory
\* eventually holds f with the bytes of A's f.
C1_RoundTrip ==
  \A f \in SharedFiles("A") :
    (\E t \in ReqThreads :
        /\ Done(t) /\ req[t].result = "ok"
        /\ req[t].peer = "B" /\ Resolve(req[t].addr) = "A" /\ req[t].file = f)
      ~> (received["B"][f] = FileData("A", f))

\* C5: Shutdown closes every connection the registry holds at that moment
\* and closes the inbound channel; a closed connection end stays closed and
\* nothing written on it is delivered; nothing is put on a closed channel;
\* and the dispatch loop ends only on a closed and drained channel.
C5_ShutdownClosesAll ==
  /\ [][\A p \in Peers : ~chClosed[p] /\ chClosed'[p] =>
          \A a \in DOMAIN peers[p] :
            conns'[peers[p][a]].sock[SideOf(p, peers[p][a])] = "closed"]_vars
  /\ [][\A c \in ConnIds : \A s \in Sides : conns[c].sock[s] = "closed" =>
          /\ conns'[c].sock[s] = "closed"
          /\ Len(conns'[c].strm[Other(s)]) <= Len(conns[c].strm[Other(s)])]_vars
  /\ [][\A p \in Peers : chClosed[p] =>
          chClosed'[p] /\ Len(messageCh'[p]) <= Len(messageCh[p])]_vars
  /\ [](\A p \in Peers : disp[p] = "done" => chClosed[p] /\ messageCh[p] = <<>>)

\* A was shut down while the connection from B was registered: the
\* connection is closed, and the dispatch loop of A has ended
C5_Witness ==
  /\ chClosed["A"] /\ disp["A"] = "done"
  /\ \E a \in DOMAIN peers["A"] :
       /\ conns[peers["A"][a]].acceptor = "A"
       /\ conns[peers["A"][a]].sock["a"] = "closed"

\* the FileResponses that are on their way to p or on p's channel
ResponsesFor(p) ==
  {messageCh[p][i] : i \in 1..Len(messageCh[p])}
    \cup UNION {{conns[c].strm[s][i].val : i \in 1..Len(conns[c].strm[s])} :
                  <<c, s>> \in {e \in ConnIds \X Sides : Owner(e[1], e[2]) = p}}

\* the only FileResponse requester p may see: file n of A
OnlyFileOfA(p, n) ==
  /\ \A m \in ResponsesFor(p) : m.Type = MessageTypeFileResponse =>
       m.Payload = FileResponse(n, FileSize("A", n), FileData("A", n))
  /\ \A x \in FileNames :
       received[p][x] \in {NoFile, IF x = n THEN FileData("A", n) ELSE NoFile}

\* C6: with B requesting f and C requesting g from A concurrently, every
\* FileResponse that reaches B is f with f's bytes and every one that
\* reaches C is g with g's bytes; neither received directory gets the
\* other's file.
C6_NoCrossTalk == OnlyFileOfA("B", "f") /\ OnlyFileOfA("C", "g")

\* both transfers have completed
C6_Witness ==
  /\ received["B"]["f"] = FileData("A", "f")
  /\ received["C"]["g"] = FileData("A", "g")

\* C7 (the claim): once the read loop of a connection has ended, no
\* registry key maps to that connection.
C7_NoEntryForExitedReader ==
  \A p \in Peers : \A a \in DOMAIN peers[p] :
    conns[peers[p][a]].rd[SideOf(p, peers[p][a])] # "exited"

\* C9 (the claim): every message on an inbound channel has the payload
\* variant its type tag names, and no dispatch loop is stopped by a frame.
C9_TagIdentifiesPayload ==
  /\ \A p \in Peers : \A i \in 1..Len(messageCh[p]) :
       /\ messageCh[p][i].Type = MessageTypeFileRequest =>
            messageCh[p][i].Payload.kind = "FileRequest"
       /\ messageCh[p][i].Type = MessageTypeFileResponse =>
            messageCh[p][i].Payload.kind = "FileResponse"
  /\ \A p \in Peers : ~crashed[p]

\* the reader of end s of connection c ends in this step
ReaderEnds(c, s) ==
  /\ conns[c].rd[s] = "loop"
  /\ conns'[c].rd[s] = "exited"
  /\ ~crashed'[Owner(c, s)]

\* C10 (the claim): when the reader of a connection ends, that connection
\* is deregistered, and the listener, the other connections and the other
\* registry entries are as before.
C10_ReaderExitIsIsolated ==
  [][\A c \in ConnIds : \A s \in Sides : ReaderEnds(c, s) =>
       LET p == Owner(c, s) IN
         /\ \A a \in DOMAIN peers'[p] : peers'[p][a] # c
         /\ \A a \in DOMAIN peers[p] : peers[p][a] # c =>
              a \in DOMAIN peers'[p] /\ peers'[p][a] = peers[p][a]
         /\ listener' = listener
         /\ \A c2 \in ConnIds \ {c} : conns'[c2] = conns[c2]]_vars

\* the streams of connection c are what they were
SameStreams(c) == conns'[c].strm = conns[c].strm

\* C11: a Send that finds a connection registered for the address goes on
\* to write on that connection and dials nothing; a Send that finds none
\* goes on to dial, and dials at most once; when the dial fails the Send
\* ends with an error, no stream and no registry has changed.
C11_SendLookupThenDial ==
  /\ [][\A k \in Callers : call[k].pc = "lookup" /\ call'[k] # call[k] =>
          LET c == Lookup(peers[PeerOf(k)], call[k].addr) IN
            /\ c # NoConn => call'[k].pc = "encode" /\ call'[k].conn = c
            /\ c = NoConn => call'[k].pc = "dial"
            /\ conns' = conns /\ peers' = peers]_vars
  /\ [][\A k \in Callers : call[k].pc = "encode" /\ call'[k] # call[k] =>
          /\ call'[k].pc \in {"ok", "err"}
          /\ Len(conns') = Len(conns) /\ peers' = peers
          /\ \A c \in ConnIds \ {call[k].conn} : SameStreams(c)
          /\ call'[k].pc = "err" => conns' = conns]_vars
  /\ [][\A k \in Callers : call[k].pc = "dial" /\ call'[k] # call[k] =>
          \/ /\ call'[k].pc = "wait"
             /\ Len(conns') = Len(conns) + 1
          \/ /\ call'[k].pc = "err"
             /\ conns' = conns /\ peers' = peers]_vars
  /\ [][\A k \in Callers : call[k].pc = "wait" /\ call'[k] # call[k] =>
          call'[k].pc \in {"ok", "err"} /\ Len(conns') = Len(conns)]_vars
  /\ [][Len(conns') > Len(conns) =>
          \E k \in Callers : call[k].pc = "dial" /\ call'[k].pc = "wait"]_vars

\* a Send found no entry, dialed an address where nobody listens and
\* returned the error: no connection exists and the registry is empty
C11_Witness ==
  \E t \in ReqThreads :
    /\ req[t].pc = "sending" /\ call[t].pc = "err"
    /\ conns = <<>> /\ peers[req[t].peer] = EmptyRegistry

\* the dispatch loop of p handles a FileResponse in this step
HandlesResponse(p) ==
  /\ Receiving(p)
  /\ Head(messageCh[p]).Type = MessageTypeFileResponse
  /\ messageCh'[p] = Tail(messageCh[p])

\* C12 (the claim): handling FileResponse{name, data} sets the received
\* file name to data and changes no other received file and no shared
\* file, and sends nothing; nothing else writes a file.
C12_ResponseWritesOnlyItsFile ==
  /\ [][\A p \in Peers : HandlesResponse(p) =>
          LET resp == Head(messageCh[p]).Payload IN
            /\ resp.name \in FileNames
            /\ received'[p][resp.name] = resp.data
            /\ \A x \in Paths \ {resp.name} : received'[p][x] = received[p][x]
            /\ \A f \in FileNames : ReadShared(p, f)' = ReadShared(p, f)
            /\ call' = call /\ conns' = conns]_vars
  /\ [][\A p \in Peers : received'[p] # received[p] => HandlesResponse(p)]_vars

\* thread t returns from SendFile in this step
ReturnsFromSendFile(t) == req'[t].pc = "checked" /\ req'[t] # req[t]

\* the frames of type FileResponse in a stream
ResponseFrames(strm) ==
  {i \in 1..Len(strm) : strm[i].val.Type = MessageTypeFileResponse}

\* a FileResponse is written on some connection in this step
ResponseWritten ==
  \E c \in ConnIds, s \in Sides :
    Cardinality(ResponseFrames(conns'[c].strm[s]))
      > Cardinality(ResponseFrames(conns[c].strm[s]))

C14_PerConnectionFifo ==
  /\ [][\A c \in ConnIds : \A s \in Sides :
          conns[c].rd[s] = "hold" /\ conns'[c].rd[s] # "hold" =>
            LET p == Owner(c, s) IN
              /\ messageCh'[p] = Append(messageCh[p], conns[c].msg[s])
              /\ via'[p] = Append(via[p], c)
              /\ conns'[c].rd[s] = "loop"]_vars
  /\ [][\A p \in Peers : messageCh'[p] # messageCh[p] =>
          \/ \E c \in ConnIds, s \in Sides :
               /\ Owner(c, s) = p /\ conns[c].rd[s] = "hold"
               /\ messageCh'[p] = Append(messageCh[p], conns[c].msg[s])
          \/ /\ Receiving(p)
             /\ messageCh'[p] = Tail(messageCh[p])
             /\ via'[p] = Tail(via[p])]_vars

\* connection c waits in the backlog of a listening peer
AwaitsAccept(c) ==
  /\ c \in ConnIds
  /\ conns[c].rd["a"] = "none" /\ conns[c].sock["a"] = "open"
  /\ listener[conns[c].acceptor] = "listening"
  /\ ~crashed[conns[c].acceptor]

\* C15: whatever the inbound queue, the dispatch loop, the readers and the
\* requests are doing, a connection that waits in the backlog of a listening
\* peer can be accepted at once; and accepting it spawns its reader and
\* touches neither the registry, nor the queue, nor the dispatch loop, nor a
\* Send call.
C15_AcceptNeverBlocked ==
  /\ [](\A c \in AllConnIds : AwaitsAccept(c) => ENABLED Accept(c))
  /\ [][\A c \in ConnIds :
          conns[c].rd["a"] = "none" /\ conns'[c].rd["a"] = "spawned" =>
            /\ UNCHANGED <<listener, peers, messageCh, disp, call, req>>
            /\ \A c2 \in ConnIds \ {c} : conns'[c2] = conns[c2]]_vars

\* a connection waits in A's backlog while A's inbound queue is full and
\* the request that dialed it is still inside Send
C15_Witness ==
  \E c \in ConnIds :
    /\ AwaitsAccept(c) /\ conns[c].acceptor = "A"
    /\ Len(messageCh["A"]) = QueueCap
    /\ call["t1"].pc = "wait"

\* the reader of end s of connection c holds a decoded message and the
\* inbound queue of its peer is full
BlockedOnFullQueue(c, s) ==
  /\ conns[c].rd[s] = "hold"
  /\ Len(messageCh[Owner(c, s)]) = QueueCap

\* C16 (the claim): the inbound queue never holds more than its capacity;
\* while the queue is full a reader that holds a decoded message keeps the
\* message and reads no further from its connection, until the dispatch
\* loop has taken a message; and the full queue keeps no other reader from
\* decoding.
C16_BoundedQueueBackpressure ==
  /\ [](\A p \in Peers : Len(messageCh[p]) <= QueueCap)
  /\ [][\A c \in ConnIds : \A s \in Sides : BlockedOnFullQueue(c, s) =>
          /\ conns'[c].rd[s] = "hold"
          /\ conns'[c].msg[s] = conns[c].msg[s]
          /\ Len(conns'[c].strm[s]) >= Len(conns[c].strm[s])]_vars
  /\ [](\A c \in AllConnIds : \A s \in Sides :
          /\ c \in ConnIds
          /\ conns[c].rd[s] = "loop" /\ conns[c].sock[s] = "open"
          /\ conns[c].strm[s] # <<>> /\ ~DecodeFails(Head(conns[c].strm[s]))
          /\ ~crashed[Owner(c, s)]
          => ENABLED ReaderDecode(c, s))

\* the dispatch loop of p takes a servable FileRequest in this step
TakesServableRequest(p) ==
  /\ Receiving(p)
  /\ Head(messageCh[p]).Type = MessageTypeFileRequest
  /\ CanOpen(p, Head(messageCh[p]).Payload.name)
  /\ messageCh'[p] = Tail(messageCh[p])

\* connection c is in the registry of p
InRegistry(p, c) == \E a \in DOMAIN peers[p] : peers[p][a] = c

\* C17 (the claim): taking a servable FileRequest starts one Send, to the
\* FromAddr of the request, of a FileResponse named as the request; the
\* dispatch loop starts a Send at no other moment; and when that Send looks
\* the address up while the connection the request arrived on is in the
\* registry, it goes on to write on that connection and dials nothing.
C17_ResponseOnSameConnection ==
  /\ [][\A p \in Peers : TakesServableRequest(p) =>
          LET msg == Head(messageCh[p]) IN
            /\ call'[p].pc = "lookup"
            /\ call'[p].addr = msg.FromAddr
            /\ call'[p].msg.Type = MessageTypeFileResponse
            /\ call'[p].msg.Payload.kind = "FileResponse"
            /\ call'[p].msg.Payload.name = msg.Payload.name]_vars
  /\ [][\A p \in Peers : call'[p].pc = "lookup" /\ call[p].pc # "lookup" =>
          TakesServableRequest(p) /\ call[p].pc = "idle"]_vars
  /\ [][\A p \in Peers :
          /\ call[p].pc = "lookup" /\ call'[p] # call[p]
          /\ InRegistry(p, call[p].arrived)
          => /\ call'[p].pc = "encode"
             /\ call'[p].conn = call[p].arrived
             /\ Len(conns') = Len(conns)]_vars

\* the dispatch loop of p takes a message of another type in this step
TakesOther(p) ==
  /\ Receiving(p)
  /\ Head(messageCh[p]).Type
       \notin {MessageTypeFileRequest, MessageTypeFileResponse}
  /\ Len(messageCh'[p]) < Len(messageCh[p])

\* C18: the dispatch loop takes a message that is neither a FileRequest nor
\* a FileResponse off the queue and does nothing else: no Send is started,
\* no connection, registry or file changes, and the loop is receiving
\* again.
C18_OtherTypeIgnored ==
  [][\A p \in Peers : TakesOther(p) =>
       /\ messageCh'[p] = Tail(messageCh[p])
       /\ disp'[p] = "recv" /\ ~crashed'[p]
       /\ UNCHANGED <<listener, peers, chClosed, conns, call, req, received>>]_vars

\* A's reader has enqueued a frame of type MessageTypeNormal and A's
\* dispatch loop has taken it: the queue is empty and the loop receives
C18_Witness ==
  \E c \in ConnIds :
    /\ conns[c].acceptor = "A" /\ conns[c].rd["a"] = "loop"
    /\ conns[c].msg["a"].Type = MessageTypeNormal
    /\ messageCh["A"] = <<>> /\ disp["A"] = "recv" /\ ~crashed["A"]

\* C19 (the claim): once Shutdown has closed the inbound queue of a peer,
\* no reader of that peer sends on it: the process of a peer whose queue
\* is closed never dies of the panic of such a send.
C19_NoEnqueueAfterClose ==
  [][\A p \in Peers : chClosed[p] => crashed'[p] = crashed[p]]_vars

\* the reader of p on connection c is in its loop: it has registered the
\* connection and has not returned
ReaderRuns(p, c) ==
  /\ conns[c].sock[SideOf(p, c)] = "open"
  /\ conns[c].rd[SideOf(p, c)] \in {"loop", "hold"}

\* a step removes from the registry of p only an entry of a connection
\* whose reader at p returns in that step
ExitDeregistersOwn ==
  [][\A p \in Peers : \A a \in DOMAIN peers[p] :
       a \notin DOMAIN peers'[p] =>
         LET c == peers[p][a] IN
           /\ conns[c].rd[SideOf(p, c)] = "loop"
           /\ conns'[c].rd[SideOf(p, c)] # "loop"]_vars

\* every open connection whose reader runs is in the registry of its peer
LiveIsReachable ==
  \A c \in ConnIds : \A s \in Sides :
    ReaderRuns(Owner(c, s), c) /\ SideOf(Owner(c, s), c) = s =>
      InRegistry(Owner(c, s), c)

\* C20 (the claim): the exit of a reader removes the registry entry of its
\* own connection only, never that of another connection, and every open
\* connection with a running reader is reachable through the registry.
C20_ExitDeregistersOnlyOwn == ExitDeregistersOwn /\ []LiveIsReachable

\* a connection that p dialed to the peer at address a has terminated: its
\* reader at p has returned
DroppedTo(p, a) ==
  \E c \in ConnIds :
    /\ conns[c].dialer = p /\ conns[c].acceptor = Resolve(a)
    /\ conns[c].rd["d"] = "exited"

\* the registry of p holds no connection with a running reader under a
NoLiveEntry(p, a) ==
  a \in DOMAIN peers[p] =>
    conns[peers[p][a]].rd[SideOf(p, peers[p][a])] = "exited"

\* C21 (the claim): when a connection dialed to address a has terminated,
\* the registry has no live connection for a and the peer at a listens,
\* the lookup of the next Send to a goes on to dial a fresh connection,
\* whatever the text of a; and a Send to a listening peer never writes on
\* a connection whose reader has returned.
C21_RetryDialsFresh ==
  [][\A k \in Callers :
       /\ call[k].pc = "lookup" /\ call'[k] # call[k]
       /\ DroppedTo(PeerOf(k), call[k].addr)
       /\ NoLiveEntry(PeerOf(k), call[k].addr)
       /\ DialSucceeds(call[k].addr)
       => call'[k].pc = "dial"]_vars

===========================================================================
